---- MODULE Spec2Model ----
(***************************************************************************)
(* Model of energy_comparator (src/src/main.rs): the tariff plans, the     *)
(* Credit/Debit arithmetic of EnergyBillEntry and the billing loop of main.*)
(*                                                                         *)
(* Money is exact: an amount is an integer number of 1/(365 * 10^6) euro,  *)
(* so that every rate of the source (four decimals times a percentage, or  *)
(* an annual charge divided by 365) is a whole number of units.  Read      *)
(* values are whole kWh.  A time of day is a number of seconds since       *)
(* midnight, a weekday one of "Mon" .. "Sun".                              *)
(***************************************************************************)
EXTENDS Integers, Sequences, FiniteSets, TLC

\* Longest reading sequence of the billing runs.
MaxLen == 3
\* Largest read value (kWh) of a reading.
MaxValue == 1
\* Largest billing period (days).
MaxDays == 2
\* Largest amount of an operand of the addition checked on its own.
MaxAmount == 7

VARIABLES data, days, plan, i, acc, price, standing, total, pc,
          add_self, add_rhs, add_out

vars == <<data, days, plan, i, acc, price, standing, total, pc,
          add_self, add_rhs, add_out>>

-----------------------------------------------------------------------------
(* EnergyBillEntry *)

Credit(x) == [tag |-> "Credit", amount |-> x]

Debit(x) == [tag |-> "Debit", amount |-> x]

\* The value of an aborted computation (panic!).
Panicked == [tag |-> "Panic", amount |-> 0]

\* A tie of a Debit with a Credit resolved to Credit: >= for > in one branch.
add_tie_to_credit(self_entry, rhs) ==
    CASE self_entry.tag = "Debit" /\ rhs.tag = "Debit" ->
            Debit(self_entry.amount + rhs.amount)
      [] self_entry.tag = "Credit" /\ rhs.tag = "Credit" ->
            Credit(self_entry.amount + rhs.amount)
      [] self_entry.tag = "Credit" /\ rhs.tag = "Debit" ->
            IF self_entry.amount > rhs.amount
            THEN Credit(self_entry.amount - rhs.amount)
            ELSE Debit(rhs.amount - self_entry.amount)
      [] self_entry.tag = "Debit" /\ rhs.tag = "Credit" ->
            IF rhs.amount >= self_entry.amount
            THEN Credit(rhs.amount - self_entry.amount)
            ELSE Debit(self_entry.amount - rhs.amount)

\* Credit + Debit always answers with the tag of the left operand.
add_left_tag(self_entry, rhs) ==
    CASE self_entry.tag = "Debit" /\ rhs.tag = "Debit" ->
            Debit(self_entry.amount + rhs.amount)
      [] self_entry.tag = "Credit" /\ rhs.tag = "Credit" ->
            Credit(self_entry.amount + rhs.amount)
      [] self_entry.tag = "Credit" /\ rhs.tag = "Debit" ->
            Credit(self_entry.amount - rhs.amount)
      [] self_entry.tag = "Debit" /\ rhs.tag = "Credit" ->
            Debit(self_entry.amount - rhs.amount)

\* Opposite tags add their amounts instead of netting them.
add_no_netting(self_entry, rhs) ==
    CASE self_entry.tag = "Debit" /\ rhs.tag = "Debit" ->
            Debit(self_entry.amount + rhs.amount)
      [] self_entry.tag = "Credit" /\ rhs.tag = "Credit" ->
            Credit(self_entry.amount + rhs.amount)
      [] self_entry.tag = "Credit" /\ rhs.tag = "Debit" ->
            IF self_entry.amount > rhs.amount
            THEN Credit(self_entry.amount + rhs.amount)
            ELSE Debit(rhs.amount + self_entry.amount)
      [] self_entry.tag = "Debit" /\ rhs.tag = "Credit" ->
            IF rhs.amount > self_entry.amount
            THEN Credit(rhs.amount + self_entry.amount)
            ELSE Debit(self_entry.amount + rhs.amount)

\* impl Add for EnergyBillEntry
add(self_entry, rhs) ==
    CASE self_entry.tag = "Debit" /\ rhs.tag = "Debit" ->
            Debit(self_entry.amount + rhs.amount)
      [] self_entry.tag = "Credit" /\ rhs.tag = "Credit" ->
            Credit(self_entry.amount + rhs.amount)
      [] self_entry.tag = "Credit" /\ rhs.tag = "Debit" ->
            IF self_entry.amount > rhs.amount
            THEN Credit(self_entry.amount - rhs.amount)
            ELSE Debit(rhs.amount - self_entry.amount)
      [] self_entry.tag = "Debit" /\ rhs.tag = "Credit" ->
            IF rhs.amount > self_entry.amount
            THEN Credit(rhs.amount - self_entry.amount)
            ELSE Debit(self_entry.amount - rhs.amount)

-----------------------------------------------------------------------------
(* Times, weekdays and rates *)

\* NaiveTime::from_hms_opt: seconds since midnight.
from_hms_opt(h, m, s) == (h * 60 + m) * 60 + s

\* chrono::Weekday
Weekday == {"Mon", "Tue", "Wed", "Thu", "Fri", "Sat", "Sun"}

\* A rate of r/10^4 euro per kWh kept at pct percent: r = 3895, pct = 100 - 14
\* is 0.3895 * (1.0 - 0.14).
Rate(r, pct) == r * pct * 365

\* An annual charge of c/100 euro divided by 365, per day.
PerDayOfYear(c) == c * 10000

\* NaiveDateTime::time and Datelike::weekday of read_data_and_end_time
time(datapoint) == datapoint.read_data_and_end_time.time

weekday(datapoint) == datapoint.read_data_and_end_time.weekday

-----------------------------------------------------------------------------
(* The three plans *)

plans == <<"ElectricIrelandHomeElectric14", "SSEAirtricity20",
           "BordGaisEnergy25WeekendFree">>

\* The export credit depends on the hour: paid at night only.
ElectricIreland_price_export_by_time(datapoint) ==
    IF datapoint.read_type = "ActiveImport"
    THEN Debit(Rate(3895, 100 - 14) * datapoint.read_value)
    ELSE IF time(datapoint) > from_hms_opt(8, 0, 0)
         THEN Credit(0)
         ELSE Credit(Rate(2100, 100) * datapoint.read_value)

ElectricIreland_price(datapoint) ==
    IF datapoint.read_type = "ActiveImport"
    THEN Debit(Rate(3895, 100 - 14) * datapoint.read_value)
    ELSE Credit(Rate(2100, 100) * datapoint.read_value)

ElectricIreland_standing_charge_per_day == Debit(PerDayOfYear(27261))

SSE_PEAK_ENERGY_START_TIME == from_hms_opt(17, 0, 0)

SSE_PEAK_ENERGY_END_TIME == from_hms_opt(19, 0, 0)

SSE_NIGHT_ENERGY_START_TIME == from_hms_opt(23, 0, 0)

SSE_NIGHT_ENERGY_END_TIME == from_hms_opt(8, 0, 0)

\* The peak band with an inclusive lower bound: >= for >.
SSE_price_peak_from_17(datapoint) ==
    IF datapoint.read_type = "ActiveImport"
    THEN IF time(datapoint) >= SSE_PEAK_ENERGY_START_TIME
            /\ time(datapoint) <= SSE_PEAK_ENERGY_END_TIME
         THEN Debit(Rate(4882, 100 - 20) * datapoint.read_value)
         ELSE IF time(datapoint) > SSE_NIGHT_ENERGY_START_TIME
                 /\ time(datapoint) <= SSE_NIGHT_ENERGY_END_TIME
              THEN Debit(Rate(2506, 100 - 20) * datapoint.read_value)
              ELSE Debit(Rate(3865, 100 - 20) * datapoint.read_value)
    ELSE Credit(Rate(2400, 100) * datapoint.read_value)

SSE_price(datapoint) ==
    IF datapoint.read_type = "ActiveImport"
    THEN IF time(datapoint) > SSE_PEAK_ENERGY_START_TIME
            /\ time(datapoint) <= SSE_PEAK_ENERGY_END_TIME
         THEN Debit(Rate(4882, 100 - 20) * datapoint.read_value)
         ELSE IF time(datapoint) > SSE_NIGHT_ENERGY_START_TIME
                 /\ time(datapoint) <= SSE_NIGHT_ENERGY_END_TIME
              THEN Debit(Rate(2506, 100 - 20) * datapoint.read_value)
              ELSE Debit(Rate(3865, 100 - 20) * datapoint.read_value)
    ELSE Credit(Rate(2400, 100) * datapoint.read_value)

SSE_standing_charge_per_day == Debit(Rate(6602, 100))

FREE_ENERGY_START_TIME == from_hms_opt(9, 0, 0)

FREE_ENERGY_END_TIME == from_hms_opt(18, 0, 0)

PEAK_ENERGY_START_TIME == from_hms_opt(17, 0, 0)

PEAK_ENERGY_END_TIME == from_hms_opt(19, 0, 0)

NIGHT_ENERGY_START_TIME == from_hms_opt(23, 0, 0)

NIGHT_ENERGY_END_TIME == from_hms_opt(8, 0, 0)

WEEKDAYS == {"Mon", "Tue", "Wed", "Thu", "Fri"}

\* The free window granted on both days of the weekend.
BordGais_price_free_weekend(datapoint) ==
    IF datapoint.read_type = "ActiveImport"
    THEN IF weekday(datapoint) \in {"Sat", "Sun"}
            /\ time(datapoint) > FREE_ENERGY_START_TIME
            /\ time(datapoint) <= FREE_ENERGY_END_TIME
         THEN Debit(0)
         ELSE IF weekday(datapoint) \in WEEKDAYS
                 /\ time(datapoint) > PEAK_ENERGY_START_TIME
                 /\ time(datapoint) <= PEAK_ENERGY_END_TIME
              THEN Debit(Rate(5258, 100 - 25) * datapoint.read_value)
              ELSE IF time(datapoint) > NIGHT_ENERGY_START_TIME
                      /\ time(datapoint) <= NIGHT_ENERGY_END_TIME
                   THEN Debit(Rate(3163, 100 - 25) * datapoint.read_value)
                   ELSE Debit(Rate(4304, 100 - 25) * datapoint.read_value)
    ELSE Credit(Rate(1850, 100) * datapoint.read_value)

BordGais_price(datapoint) ==
    IF datapoint.read_type = "ActiveImport"
    THEN IF weekday(datapoint) = "Sun"
            /\ time(datapoint) > FREE_ENERGY_START_TIME
            /\ time(datapoint) <= FREE_ENERGY_END_TIME
         THEN Debit(0)
         ELSE IF weekday(datapoint) \in WEEKDAYS
                 /\ time(datapoint) > PEAK_ENERGY_START_TIME
                 /\ time(datapoint) <= PEAK_ENERGY_END_TIME
              THEN Debit(Rate(5258, 100 - 25) * datapoint.read_value)
              ELSE IF time(datapoint) > NIGHT_ENERGY_START_TIME
                      /\ time(datapoint) <= NIGHT_ENERGY_END_TIME
                   THEN Debit(Rate(3163, 100 - 25) * datapoint.read_value)
                   ELSE Debit(Rate(4304, 100 - 25) * datapoint.read_value)
    ELSE Credit(Rate(1850, 100) * datapoint.read_value)

\* The daily charge of the plan returned as a Credit.
BordGais_standing_charge_as_credit == Credit(PerDayOfYear(23756))

BordGais_standing_charge_per_day == Debit(PerDayOfYear(23756))

\* PricePlanStrategy::price_for_singe_period, dispatched on the plan
price_for_singe_period(p, datapoint) ==
    CASE plans[p] = "ElectricIrelandHomeElectric14" -> ElectricIreland_price(datapoint)
      [] plans[p] = "SSEAirtricity20" -> SSE_price(datapoint)
      [] plans[p] = "BordGaisEnergy25WeekendFree" -> BordGais_price(datapoint)

\* PricePlanStrategy::standing_charge_per_day, dispatched on the plan
standing_charge_per_day(p) ==
    CASE plans[p] = "ElectricIrelandHomeElectric14" ->
            ElectricIreland_standing_charge_per_day
      [] plans[p] = "SSEAirtricity20" -> SSE_standing_charge_per_day
      [] plans[p] = "BordGaisEnergy25WeekendFree" ->
            BordGais_standing_charge_per_day

\* PricePlanStrategy::standing_charge_per_number_of_days
standing_charge_per_number_of_days(p, n) ==
    IF standing_charge_per_day(p).tag = "Credit"
    THEN Panicked
    ELSE Debit(standing_charge_per_day(p).amount * n)

\* PricePlanStrategy::compute_total_bill_for_period as a function of the whole
\* sequence: the left fold from Debit(0).
RECURSIVE fold(_, _, _)
fold(p, datapoints, a) ==
    IF datapoints = <<>>
    THEN a
    ELSE fold(p, Tail(datapoints), add(a, price_for_singe_period(p, Head(datapoints))))

compute_total_bill_for_period(p, datapoints) == fold(p, datapoints, Debit(0))

-----------------------------------------------------------------------------
(* Inputs *)

SmartMeterDataType == {"ActiveImport", "ActiveExport"}

SmartMeterData(v, t, d, tm) ==
    [read_value |-> v, read_type |-> t,
     read_data_and_end_time |-> [weekday |-> d, time |-> tm]]

\* Every hour of the day at :00, :01, :30 and :59: each band boundary, the
\* minute after it and the minute before it.
Times == {from_hms_opt(h, m, 0) : h \in 0..23, m \in {0, 1, 30, 59}}

\* One reading, anywhere on the grid.
AllReadings ==
    {SmartMeterData(v, t, d, tm) :
        v \in 0..MaxValue, t \in SmartMeterDataType, d \in Weekday, tm \in Times}

\* The readings of the billing runs: imports in a free, a peak and a
\* standard hour, exports.
BillReadings ==
    {SmartMeterData(v, "ActiveImport", "Sun", from_hms_opt(10, 0, 0)) : v \in 0..MaxValue}
    \cup {SmartMeterData(v, "ActiveImport", "Mon", from_hms_opt(18, 0, 0)) : v \in 0..MaxValue}
    \cup {SmartMeterData(v, "ActiveExport", "Sat", from_hms_opt(12, 30, 0)) : v \in 0..MaxValue}

SeqsUpTo(S, n) == UNION {[1..k -> S] : k \in 0..n}

Entries == {Credit(x) : x \in 0..MaxAmount} \cup {Debit(x) : x \in 0..MaxAmount}

-----------------------------------------------------------------------------
(* main: for each plan, the fold over the readings, then the standing charge *)

InitWith(readings) ==
    /\ data \in readings
    /\ days \in 0..MaxDays
    /\ plan = 1
    /\ i = 0
    /\ acc = Debit(0)
    /\ price = Debit(0)
    /\ standing = Debit(0)
    /\ total = Debit(0)
    /\ pc = "fold"
    /\ add_self = Debit(0)
    /\ add_rhs = Debit(0)
    /\ add_out = Debit(0)

Init == InitWith(SeqsUpTo(BillReadings, MaxLen))

InitPrice == InitWith(SeqsUpTo(AllReadings, 1))

\* One step of the fold of compute_total_bill_for_period.
FoldStep ==
    /\ pc = "fold"
    /\ i < Len(data)
    /\ price' = price_for_singe_period(plan, data[i + 1])
    /\ acc' = add(acc, price_for_singe_period(plan, data[i + 1]))
    /\ i' = i + 1
    /\ UNCHANGED <<data, days, plan, standing, total, pc,
                   add_self, add_rhs, add_out>>

\* The fold has returned: the standing charge is computed and added.
Bill ==
    /\ pc = "fold"
    /\ i = Len(data)
    /\ standing' = standing_charge_per_number_of_days(plan, days)
    /\ IF standing_charge_per_number_of_days(plan, days) = Panicked
       THEN pc' = "panicked" /\ total' = total
       ELSE /\ pc' = "print"
            /\ total' = add(acc, standing_charge_per_number_of_days(plan, days))
    /\ UNCHANGED <<data, days, plan, i, acc, price, add_self, add_rhs, add_out>>

\* The plan's total is printed; the loop goes on to the next plan or ends.
Report ==
    /\ pc = "print"
    /\ IF plan < Len(plans)
       THEN /\ plan' = plan + 1
            /\ i' = 0
            /\ acc' = Debit(0)
            /\ pc' = "fold"
       ELSE /\ pc' = "done"
            /\ UNCHANGED <<plan, i, acc>>
    /\ UNCHANGED <<data, days, price, standing, total, add_self, add_rhs, add_out>>

Next == FoldStep \/ Bill \/ Report

Spec == Init /\ [][Next]_vars

SpecPrice == InitPrice /\ [][Next]_vars

-----------------------------------------------------------------------------
(* The addition on its own: any two entries *)

InitAdd ==
    /\ data = <<>>
    /\ days = 0
    /\ plan = 1
    /\ i = 0
    /\ acc = Debit(0)
    /\ price = Debit(0)
    /\ standing = Debit(0)
    /\ total = Debit(0)
    /\ pc = "add"
    /\ add_self \in Entries
    /\ add_rhs \in Entries
    /\ add_out = Debit(0)

AddStep ==
    /\ pc = "add"
    /\ add_out' = add(add_self, add_rhs)
    /\ pc' = "added"
    /\ UNCHANGED <<data, days, plan, i, acc, price, standing, total,
                   add_self, add_rhs>>

NextAdd == AddStep

SpecAdd == InitAdd /\ [][NextAdd]_vars

-----------------------------------------------------------------------------
(* Properties *)

\* The reading whose price the variable price holds: the last one folded.
priced == data[i]

IsImport(d) == d.read_type = "ActiveImport"

IsExport(d) == d.read_type = "ActiveExport"

InBand(d, start, end) == time(d) > start /\ time(d) <= end

IsSSE == plans[plan] = "SSEAirtricity20"

IsBordGais == plans[plan] = "BordGaisEnergy25WeekendFree"

InPeakHours(d) == InBand(d, from_hms_opt(17, 0, 0), from_hms_opt(19, 0, 0))

InNightHours(d) ==
    time(d) > from_hms_opt(23, 0, 0) \/ time(d) <= from_hms_opt(8, 0, 0)

InSundayFreeHours(d) ==
    weekday(d) = "Sun" /\ InBand(d, from_hms_opt(9, 0, 0), from_hms_opt(18, 0, 0))

\* C1: in the two time-band plans an Import reading after 23:00 or at/before
\* 08:00, outside any free or peak window, is priced at the night rate
\* (0.2506 x 0.80, resp. 0.3163 x 0.75 per kWh).
C1_NightRate ==
    (i >= 1 /\ IsImport(priced) /\ InNightHours(priced)
        /\ ~InPeakHours(priced) /\ ~InSundayFreeHours(priced))
    => /\ IsSSE => price = Debit(Rate(2506, 80) * priced.read_value)
       /\ IsBordGais => price = Debit(Rate(3163, 75) * priced.read_value)

C2_Permuted(p) == [k \in 1..Len(data) |-> data[p[k]]]

\* C2: the fold from Debit(0) ends with the same tag and amount for every
\* permutation of the reading sequence.
C2_OrderIndependent ==
    (pc = "fold" /\ i = Len(data))
    => \A p \in Permutations(1..Len(data)) :
          compute_total_bill_for_period(plan, C2_Permuted(p)) = acc

C2_Witness ==
    /\ pc = "fold"
    /\ i = Len(data)
    /\ Len(data) >= 3
    /\ IsExport(data[1]) /\ data[1].read_value > 0
    /\ IsImport(data[2]) /\ data[2].read_value > 0
    /\ IsExport(data[3]) /\ data[3].read_value > 0
    /\ price_for_singe_period(plan, data[2]).amount > 0
    /\ acc.tag = "Credit"

\* C3: a + b and b + a have the same tag and amount; opposite tags with equal
\* amounts give Debit(0) in both orders.
C3_Commutative ==
    pc = "added"
    => /\ add_out = add(add_rhs, add_self)
       /\ (add_self.tag # add_rhs.tag /\ add_self.amount = add_rhs.amount)
          => add_out = Debit(0)

C3_Witness ==
    /\ pc = "added"
    /\ add_self.tag = "Credit"
    /\ add_rhs.tag = "Debit"
    /\ add_self.amount = add_rhs.amount
    /\ add_self.amount > 0
    /\ add_out = Debit(0)

C4_IsEntry(e) == e.tag \in {"Credit", "Debit"} /\ e.amount >= 0

\* C4: every per-reading price, every accumulator of the fold, the standing
\* charge and the final bill are a Credit or a Debit of an amount >= 0.
C4_NonNegative ==
    /\ C4_IsEntry(price)
    /\ C4_IsEntry(acc)
    /\ C4_IsEntry(standing)
    /\ C4_IsEntry(total)

C4_Witness ==
    /\ pc = "print"
    /\ acc.tag = "Credit"
    /\ acc.amount > 0
    /\ standing.amount > acc.amount
    /\ total.tag = "Debit"
    /\ total.amount > 0

RECURSIVE C5_Sum(_, _, _)
\* The sum of the amounts of the prices of data[1..k] that carry the tag.
C5_Sum(p, k, tag) ==
    IF k = 0
    THEN 0
    ELSE C5_Sum(p, k - 1, tag)
         + (IF price_for_singe_period(p, data[k]).tag = tag
            THEN price_for_singe_period(p, data[k]).amount
            ELSE 0)

C5_D == C5_Sum(plan, Len(data), "Debit") + standing_charge_per_day(plan).amount * days

C5_C == C5_Sum(plan, Len(data), "Credit")

\* C5: the final bill is Debit(D - C) when D >= C and Credit(C - D) when
\* C > D; the empty sequence folds to Debit(0) and bills the standing charge.
C5_SignedNet ==
    /\ pc \in {"print", "done"}
       => total = IF C5_D >= C5_C THEN Debit(C5_D - C5_C) ELSE Credit(C5_C - C5_D)
    /\ (data = <<>> /\ pc = "fold") => acc = Debit(0)
    /\ (data = <<>> /\ pc \in {"print", "done"})
       => total = Debit(standing_charge_per_day(plan).amount * days)

C5_Witness ==
    /\ pc = "print"
    /\ days > 0
    /\ C5_D > 0
    /\ C5_C > C5_D
    /\ total.tag = "Credit"
    /\ total.amount > 0

\* C6: an Import reading is priced at the peak rate iff 17:00 < t <= 19:00
\* (SSEAirtricity20), resp. iff the day is Monday-Friday and 17:00 < t <= 19:00
\* (BordGaisEnergy25WeekendFree).
C6_PeakBand ==
    (i >= 1 /\ IsImport(priced))
    => /\ IsSSE =>
            IF InPeakHours(priced)
            THEN price = Debit(Rate(4882, 80) * priced.read_value)
            ELSE priced.read_value > 0
                 => price # Debit(Rate(4882, 80) * priced.read_value)
       /\ IsBordGais =>
            IF weekday(priced) \in {"Mon", "Tue", "Wed", "Thu", "Fri"}
               /\ InPeakHours(priced)
            THEN price = Debit(Rate(5258, 75) * priced.read_value)
            ELSE priced.read_value > 0
                 => price # Debit(Rate(5258, 75) * priced.read_value)

C6_Witness ==
    /\ i >= 1
    /\ IsSSE
    /\ IsImport(priced)
    /\ priced.read_value > 0
    /\ time(priced) = from_hms_opt(19, 0, 0)
    /\ price = Debit(Rate(4882, 80) * priced.read_value)

C8_ExportRate ==
    CASE plans[plan] = "ElectricIrelandHomeElectric14" -> Rate(2100, 100)
      [] plans[plan] = "SSEAirtricity20" -> Rate(2400, 100)
      [] plans[plan] = "BordGaisEnergy25WeekendFree" -> Rate(1850, 100)

\* C8: an Export reading of value v is priced Credit(rate x v) at the plan's
\* flat export rate whatever its time and weekday; an Import reading is
\* always priced a Debit.
C8_TagByDirection ==
    i >= 1
    => /\ IsExport(priced) => price = Credit(C8_ExportRate * priced.read_value)
       /\ IsImport(priced) => price.tag = "Debit"

C8_Witness ==
    /\ i >= 1
    /\ plans[plan] = "ElectricIrelandHomeElectric14"
    /\ IsExport(priced)
    /\ priced.read_value > 0
    /\ time(priced) = from_hms_opt(18, 0, 0)
    /\ price = Credit(Rate(2100, 100) * priced.read_value)

\* C9: the standing charge of every configured plan is a Debit, the abort of
\* standing_charge_per_number_of_days is never reached, and the charge of
\* the period is Debit(per-day amount x days).
C9_StandingDebitOnly ==
    /\ pc # "panicked"
    /\ standing # Panicked
    /\ \A p \in 1..Len(plans) : standing_charge_per_day(p).tag = "Debit"
    /\ pc \in {"print", "done"}
       => standing = Debit(standing_charge_per_day(plan).amount * days)

C9_Witness ==
    /\ pc = "print"
    /\ IsBordGais
    /\ days >= 2
    /\ standing = Debit(PerDayOfYear(23756) * days)

\* C10: a Sunday Import reading of non-zero value with a time of day after
\* 17:00 is priced at a non-zero Debit in BordGaisEnergy25WeekendFree.
C10_SundayFreeUntil5pm ==
    (i >= 1 /\ IsBordGais /\ IsImport(priced) /\ weekday(priced) = "Sun"
        /\ priced.read_value > 0 /\ time(priced) > from_hms_opt(17, 0, 0))
    => price.tag = "Debit" /\ price.amount > 0

====
